---- MODULE Spec2Model ----
(***************************************************************************)
(* Document-to-knowledge pipeline of the chat backend: document creation   *)
(* and processing (document/), auto-indexing and the vector store manager  *)
(* (vectorstore/), and the embed_document Celery task.                     *)
(*                                                                         *)
(* Every database write outside transaction.atomic is its own commit       *)
(* (Django autocommit), so process_document is modelled write by write.    *)
(* add_document_to_vector_store and create_vector_store are decorated      *)
(* with @transaction.atomic: their database effects happen in one step or  *)
(* not at all, while their calls to the vector backend are not undone.     *)
(***************************************************************************)
EXTENDS Integers, Sequences, FiniteSets, TLC

\* ---------------------------------------------------------------- bounds
MaxVS == 2
MaxApiSaves == 1
\* injected failures of collaborators (database, storage, backend) per behaviour
MaxFaults == 1
\* chat sessions and message requests per behaviour
MaxSessions == 1
MaxPosts == 1
\* page counts a ProcessingStatus row is read with: -MaxPages..MaxPages
MaxPages == 5
\* calls of PDFExtractor.extract_from_bytes per behaviour
MaxCalls == 2
\* concurrent calls of add_document_to_vector_store per behaviour
MaxTxns == 2
\* jobs one worker process runs per behaviour
MaxJobs == 6
\* concurrent runs of the auto-index handler per behaviour
MaxHooks == 2

Docs == {"d1"}
Users == {"u1", "u2"}
VSIds == 1..MaxVS

\* Users are interchangeable, so the uploads are u1's; vector stores are
\* created for either user.
Uploaders == {"u1"}

\* celery: @shared_task(bind=True, max_retries=3)
max_retries == 3

NULL == "NULL"

\* The provider implementations a VectorStoreManager registers.
RegisteredProviders == {"chroma"}

\* What the PDF loader and the text splitter return for an uploaded file:
\* one entry per extracted page, the entry being the number of pieces the
\* splitter cuts the cleaned page text into (0 for a page that cleans to
\* the empty string).  The uploads considered: a file with no extractable
\* page, a blank page, a two-piece page, two one-piece pages.
Files == {<<>>, <<0>>, <<2>>, <<1, 1>>}

VARIABLES
    docs,        \* Document rows
    ps,          \* ProcessingStatus rows (one-to-one with Document)
    chunks,      \* DocumentChunk rows of each document, in insertion order
    pc,          \* position of process_document / create_document per document
    ctx,         \* transactional context create_document was called in
    file,        \* what extraction and splitting yield for the document's file
    err,         \* text of the exception being handled by process_document
    apiSnap,     \* Document instance loaded by an in-flight API update
    apiSaves,    \* number of API updates performed
    vstores,     \* VectorStoreInstance rows
    vsDocs,      \* VectorStoreInstance.documents (many-to-many)
    embeddings,  \* Embedding rows
    nextRow,     \* next Embedding primary key
    backend,     \* records of each instance's backend collection
    queue,       \* embed_document task messages waiting in the broker
    nextTid,     \* next Celery task id
    lastAdd,     \* outcome of the latest add_document_to_vector_store per instance
    faults,      \* number of injected collaborator failures so far
    activeProvider,  \* slug of the active VectorStoreProvider row (NULL: none)
    defaultEmbedding,    \* EmbeddingModel.filter(is_active=True).first() exists
    addReq,      \* latest request to AddDocumentToVectorStoreView and its outcome
    sessions,    \* ChatSession rows
    messages,    \* ChatMessage rows of each session, ordered by created_at
    posts,       \* message requests: position, arguments, generation result
    progress,    \* value last read from ProcessingStatus.progress_percentage
    extract,     \* calls of PDFExtractor.extract_from_bytes: position and locals
    tmpfiles,    \* temporary files present on disk
    txns,        \* concurrent calls of add_document_to_vector_store
    observed,    \* what the latest reader of a VectorStoreInstance row saw
    worker,      \* one worker process: its current job and the model loads made
    hooks        \* concurrent runs of the auto-index handler

vars == <<docs, ps, chunks, pc, ctx, file, err, apiSnap, apiSaves, vstores,
          vsDocs, embeddings, nextRow, backend, queue, nextTid,
          lastAdd, faults, activeProvider, defaultEmbedding, addReq, sessions,
          messages, posts, progress, extract, tmpfiles,
          txns, observed, worker, hooks>>

docVars == <<docs, ps, chunks, pc, ctx, file, err>>
apiVars == <<apiSnap, apiSaves>>
indexVars == <<vsDocs, embeddings, nextRow, backend, lastAdd>>
hookVars == <<vstores, queue, nextTid>>
cfgVars == <<activeProvider, defaultEmbedding>>
chatVars == <<sessions, messages, posts>>
\* state of the components specified on their own
extractVars == <<extract, tmpfiles>>
txnVars == <<txns, observed>>
workerVars == <<worker>>
hookRunVars == <<hooks>>
restVars == <<extractVars, txnVars, workerVars, hookRunVars>>
\* the variables of the pipeline, the add-document endpoint, chat and progress
coreVars == <<docVars, apiVars, hookVars, indexVars, faults, cfgVars,
              chatVars, addReq, progress>>
\* what the PDF extractor leaves alone
extractFrame == <<coreVars, txnVars, workerVars, hookRunVars>>
\* what the worker's model cache leaves alone
workerFrame == <<coreVars, extractVars, txnVars, hookRunVars>>

\* ------------------------------------------------------------ row shapes
NoDocument == [exists |-> FALSE, user |-> NULL, status |-> NULL,
               error_message |-> NULL]

\* ProcessingStatus field defaults
NewProcessingStatus ==
    [exists |-> TRUE, extraction_completed |-> FALSE,
     chunking_completed |-> FALSE, embedding_completed |-> FALSE,
     indexing_completed |-> FALSE, total_pages |-> 0, processed_pages |-> 0,
     end_time |-> FALSE]

NoProcessingStatus == [NewProcessingStatus EXCEPT !.exists = FALSE]

NoStore == [exists |-> FALSE, user |-> NULL, status |-> NULL,
            error_message |-> NULL]

NoAdd == [called |-> FALSE]
NoSnap == [loaded |-> FALSE, status |-> NULL, error_message |-> NULL]

\* ProcessingStatus.is_completed
is_completed(p) ==
    /\ p.extraction_completed
    /\ p.chunking_completed
    /\ p.embedding_completed
    /\ p.indexing_completed

\* ---------------------------------------------------- chunker (text_cleaner)
\* The chunk dictionaries split_documents builds for one page: the splitter's
\* pieces of that page, numbered by enumerate() from 0.
PageChunks(page, n) == [i \in 1..n |-> [chunk_index |-> i - 1, page |-> page]]

RECURSIVE SplitFrom(_, _)
SplitFrom(pages, k) ==
    IF k > Len(pages) THEN <<>>
    ELSE PageChunks(k - 1, pages[k]) \o SplitFrom(pages, k + 1)

\* TextCleaner.split_documents: for doc in documents: for i, split_text in
\* enumerate(split_texts): splits.append({..., "chunk_index": i})
split_documents(pages) == SplitFrom(pages, 1)

\* ------------------------------------------------- auto-index (signals.py)
\* The same query without the user filter.
ReadyStores_AnyUser(u) ==
    {v \in VSIds : vstores[v].exists /\ vstores[v].status = "ready"}

\* VectorStoreInstance.objects.filter(user=instance.user, status='ready')
ReadyStores(u) ==
    {v \in VSIds : vstores[v].exists /\ vstores[v].user = u
                   /\ vstores[v].status = "ready"}

\* VectorStoreInstance rows are numbered in creation order, so the row with
\* the largest created_at is the one with the largest number.
Newest(S) == CHOOSE v \in S : \A w \in S : w <= v

\* The same query ordered by 'created_at' instead of '-created_at'.
MostRecentReady_Oldest(u) ==
    CHOOSE v \in ReadyStores(u) : \A w \in ReadyStores(u) : v <= w

\* .filter(user=..., status='ready').order_by('-created_at').first()
MostRecentReady(u) == Newest(ReadyStores(u))

FreeStores == {v \in VSIds : ~vstores[v].exists}
NextStore == CHOOSE v \in FreeStores : \A w \in FreeStores : v <= w

\* VectorStoreManager.get_provider: the row must exist and be active and the
\* slug must be a registered implementation.
ProviderUsable(slug) == slug \in RegisteredProviders
\* An injected failure is drawn only while the budget lasts.
Inject(f) ==
    /\ f => faults < MaxFaults
    /\ faults' = IF f THEN faults + 1 ELSE faults

\* embed_document.delay(vector_store.id, instance.id)
Enqueue(v, d) ==
    /\ queue' = queue \cup {[tid |-> nextTid, vs |-> v, doc |-> d, retries |-> 0]}
    /\ nextTid' = nextTid + 1

\* default_provider and default_embedding of the handler are both found.
HasDefaults == activeProvider # NULL /\ defaultEmbedding

\* create_vector_store can succeed with the configured defaults.
ConfigUsable == HasDefaults /\ ProviderUsable(activeProvider)

\* The handler reaches manager.create_vector_store with usable defaults.
Provisions(u) == ReadyStores(u) = {} /\ ConfigUsable

\* The handler needs a free row number when it has to provision a store.
HookCanRun(u) == ReadyStores(u) # {} \/ FreeStores # {}

\* queue_embedding_task_on_commit, run for a saved Document whose in-memory
\* status is 'completed'.  The save is made outside any atomic block, so
\* transaction.on_commit runs the callback at once, inside the save.
\* provisionFails: create_vector_store raises (backend or database error).
queue_embedding_task_on_commit(d, u, provisionFails) ==
    IF ReadyStores(u) # {}
    THEN /\ Enqueue(MostRecentReady(u), d)
         /\ vstores' = vstores
    ELSE IF ~HasDefaults
    THEN UNCHANGED hookVars
    ELSE IF ~ProviderUsable(activeProvider) \/ provisionFails
    THEN UNCHANGED hookVars
    ELSE /\ vstores' = [vstores EXCEPT ![NextStore] =
                 [exists |-> TRUE, user |-> u, status |-> "ready",
                  error_message |-> NULL]]
         /\ Enqueue(NextStore, d)

\* post_save receiver add_document_to_default_vector_store
add_document_to_default_vector_store(d, u, status, provisionFails) ==
    IF status = "completed"
    THEN queue_embedding_task_on_commit(d, u, provisionFails)
    ELSE UNCHANGED hookVars

\* ------------------------------------------- document creation and processing
\* Where control goes when process_document returns or raises into
\* start_processing: in autocommit the hook ran inside Document.objects.create,
\* and create_document goes on to create the ProcessingStatus row.
AfterProcessing(d) == IF ctx[d] = "autocommit" THEN "create_ps" ELSE "done"

\* The except branch of process_document, entered with exception text msg.
Raise(d, msg) ==
    /\ pc' = [pc EXCEPT ![d] = "except"]
    /\ err' = [err EXCEPT ![d] = msg]

\* DocumentService.create_document followed by the post_save receiver
\* process_document_on_create.  c = "autocommit": no transaction is open (the
\* API view), on_commit calls start_processing at once, before the
\* ProcessingStatus row is created.  c = "atomic": the caller holds a
\* transaction; both rows are committed together and start_processing runs
\* at that commit.
create_document(d, u, c, f) ==
    /\ ~docs[d].exists
    /\ pc[d] = "none"
    /\ docs' = [docs EXCEPT ![d] = [exists |-> TRUE, user |-> u,
                                    status |-> "pending", error_message |-> NULL]]
    /\ ps' = [ps EXCEPT ![d] = IF c = "atomic" THEN NewProcessingStatus ELSE @]
    /\ ctx' = [ctx EXCEPT ![d] = c]
    /\ file' = [file EXCEPT ![d] = f]
    /\ pc' = [pc EXCEPT ![d] = "start"]
    /\ UNCHANGED <<chunks, err, apiVars, hookVars, indexVars, faults,
                   cfgVars, chatVars, addReq, progress, restVars>>

\* ProcessingStatus.objects.create(document=document), create_document line 50
create_processing_status(d) ==
    /\ pc[d] = "create_ps"
    /\ ps' = [ps EXCEPT ![d] = NewProcessingStatus]
    /\ pc' = [pc EXCEPT ![d] = "done"]
    /\ UNCHANGED <<docs, chunks, ctx, file, err, apiVars, hookVars, indexVars, faults, cfgVars, chatVars, addReq, progress, restVars>>

\* process_document lines 31-39: load the document (with its cached
\* processing_status) and update_document_status(document, 'processing').
\* fails: the save raises; it is outside the try block, so the exception
\* leaves process_document and is logged by start_processing.
start_processing(d, fails) ==
    /\ pc[d] = "start"
    /\ Inject(fails)
    /\ IF fails
       THEN /\ pc' = [pc EXCEPT ![d] = AfterProcessing(d)]
            /\ UNCHANGED docs
       ELSE /\ docs' = [docs EXCEPT ![d].status = "processing",
                                    ![d].error_message = NULL]
            /\ pc' = [pc EXCEPT ![d] = "extract"]
    /\ UNCHANGED <<ps, chunks, ctx, file, err, apiVars, hookVars, indexVars, cfgVars, chatVars, addReq, progress, restVars>>

\* _extract_document_text: read the file, PDFExtractor.extract_from_bytes
extract_document_text(d, readFails) ==
    /\ pc[d] = "extract"
    /\ Inject(readFails)
    /\ IF readFails THEN Raise(d, "read failed")
       ELSE IF Len(file[d]) = 0
       THEN Raise(d, "Failed to extract content: No content extracted from PDF")
       ELSE /\ pc' = [pc EXCEPT ![d] = "ps1"]
            /\ UNCHANGED err
    /\ UNCHANGED <<docs, ps, chunks, ctx, file, apiVars, hookVars, indexVars, cfgVars, chatVars, addReq, progress, restVars>>

\* process_document lines 46-49: document.processing_status raises
\* RelatedObjectDoesNotExist when the row was absent at load time.
save_extraction(d, fails) ==
    /\ pc[d] = "ps1"
    /\ fails => ctx[d] = "atomic"
    /\ Inject(fails)
    /\ IF ctx[d] = "autocommit"
       THEN Raise(d, "Document has no processing_status.") /\ UNCHANGED ps
       ELSE IF fails THEN Raise(d, "status save failed") /\ UNCHANGED ps
       ELSE /\ ps' = [ps EXCEPT ![d].extraction_completed = TRUE,
                                ![d].total_pages = Len(file[d])]
            /\ pc' = [pc EXCEPT ![d] = "chunk"]
            /\ UNCHANGED err
    /\ UNCHANGED <<docs, chunks, ctx, file, apiVars, hookVars, indexVars, cfgVars, chatVars, addReq, progress, restVars>>

\* _process_text_chunks: TextCleaner.process_text, then one bulk_create of
\* the DocumentChunk rows inside transaction.atomic().
process_text_chunks(d, fault) ==
    /\ pc[d] = "chunk"
    /\ Inject(fault # "none")
    /\ IF fault = "chunking" THEN Raise(d, "chunking failed") /\ UNCHANGED chunks
       ELSE IF fault = "persist" THEN Raise(d, "bulk_create failed") /\ UNCHANGED chunks
       ELSE /\ chunks' = [chunks EXCEPT ![d] = @ \o split_documents(file[d])]
            /\ pc' = [pc EXCEPT ![d] = "ps2"]
            /\ UNCHANGED err
    /\ UNCHANGED <<docs, ps, ctx, file, apiVars, hookVars, indexVars, cfgVars, chatVars, addReq, progress, restVars>>

\* process_document lines 55-57
save_chunking(d, fails) ==
    /\ pc[d] = "ps2"
    /\ Inject(fails)
    /\ IF fails THEN Raise(d, "status save failed") /\ UNCHANGED ps
       ELSE /\ ps' = [ps EXCEPT ![d].chunking_completed = TRUE,
                                ![d].processed_pages = Len(file[d])]
            /\ pc' = [pc EXCEPT ![d] = "complete"]
            /\ UNCHANGED err
    /\ UNCHANGED <<docs, chunks, ctx, file, apiVars, hookVars, indexVars, cfgVars, chatVars, addReq, progress, restVars>>

\* update_document_status(document, 'completed'), lines 93-96: the Document
\* save, whose post_save receivers run before save() returns.
complete_save(d, fails, provisionFails) ==
    /\ pc[d] = "complete"
    /\ HookCanRun(docs[d].user)
    /\ provisionFails => ~fails /\ Provisions(docs[d].user)
    /\ Inject(fails \/ provisionFails)
    /\ IF fails
       THEN /\ Raise(d, "document save failed")
            /\ UNCHANGED <<docs, hookVars>>
       ELSE /\ docs' = [docs EXCEPT ![d].status = "completed",
                                    ![d].error_message = NULL]
            /\ add_document_to_default_vector_store(d, docs[d].user, "completed",
                                                    provisionFails)
            /\ pc' = [pc EXCEPT ![d] = "complete_end"]
            /\ UNCHANGED err
    /\ UNCHANGED <<ps, chunks, ctx, file, apiVars, indexVars, cfgVars, chatVars, addReq, progress, restVars>>

\* update_document_status(document, 'completed'), lines 98-102: end_time
complete_end(d, fails) ==
    /\ pc[d] = "complete_end"
    /\ Inject(fails)
    /\ IF fails THEN Raise(d, "end_time save failed") /\ UNCHANGED ps
       ELSE /\ ps' = [ps EXCEPT ![d].end_time = TRUE]
            /\ pc' = [pc EXCEPT ![d] = AfterProcessing(d)]
            /\ UNCHANGED err
    /\ UNCHANGED <<docs, chunks, ctx, file, apiVars, hookVars, indexVars, cfgVars, chatVars, addReq, progress, restVars>>

\* The error_message update_document_status puts on the instance.
StatusMessage(old, error_message) ==
    IF error_message # "" THEN error_message ELSE old

\* except branch: update_document_status(document, 'failed', str(e)),
\* lines 93-96.  fails: the save raises and the exception leaves
\* process_document.
except_save(d, fails) ==
    /\ pc[d] = "except"
    /\ Inject(fails)
    /\ IF fails
       THEN /\ pc' = [pc EXCEPT ![d] = AfterProcessing(d)]
            /\ UNCHANGED docs
       ELSE /\ docs' = [docs EXCEPT ![d].status = "failed",
                            ![d].error_message = StatusMessage(NULL, err[d])]
            /\ pc' = [pc EXCEPT ![d] = "except_end"]
    /\ UNCHANGED <<ps, chunks, ctx, file, err, apiVars, hookVars, indexVars, cfgVars, chatVars, addReq, progress, restVars>>

\* except branch: update_document_status lines 98-102; an exception here
\* (no ProcessingStatus row, or the save fails) leaves process_document.
except_end(d, fails) ==
    /\ pc[d] = "except_end"
    /\ fails => ctx[d] = "atomic"
    /\ Inject(fails)
    /\ ps' = [ps EXCEPT ![d].end_time =
                 IF ctx[d] = "autocommit" \/ fails THEN @ ELSE TRUE]
    /\ pc' = [pc EXCEPT ![d] = AfterProcessing(d)]
    /\ UNCHANGED <<docs, chunks, ctx, file, err, apiVars, hookVars, indexVars, cfgVars, chatVars, addReq, progress, restVars>>

\* ------------------------------------------------------- document API update
\* DocumentViewSet.update / partial_update, first half: get_object() loads
\* the Document row into an instance.
api_load(d) ==
    /\ docs[d].exists
    /\ ~apiSnap[d].loaded
    /\ apiSaves < MaxApiSaves
    /\ apiSnap' = [apiSnap EXCEPT ![d] = [loaded |-> TRUE,
                                          status |-> docs[d].status,
                                          error_message |-> docs[d].error_message]]
    /\ UNCHANGED <<docVars, apiSaves, hookVars, indexVars, faults,
                   cfgVars, chatVars, addReq, progress, restVars>>

\* Second half: serializer.save() sets the writable fields and calls
\* instance.save() with no update_fields, writing every column from the
\* loaded instance; the post_save receivers run on that instance.
api_save(d, provisionFails) ==
    /\ apiSnap[d].loaded
    /\ apiSaves < MaxApiSaves
    /\ HookCanRun(docs[d].user)
    /\ provisionFails => apiSnap[d].status = "completed" /\ Provisions(docs[d].user)
    /\ Inject(provisionFails)
    /\ docs' = [docs EXCEPT ![d].status = apiSnap[d].status,
                            ![d].error_message = apiSnap[d].error_message]
    /\ add_document_to_default_vector_store(d, docs[d].user, apiSnap[d].status,
                                            provisionFails)
    /\ apiSnap' = [apiSnap EXCEPT ![d] = NoSnap]
    /\ apiSaves' = apiSaves + 1
    /\ UNCHANGED <<ps, chunks, pc, ctx, file, err, indexVars, cfgVars, chatVars, addReq, progress, restVars>>

\* ------------------------------------------------ vector store manager
\* tasks.create_vector_store -> VectorStoreManager.create_vector_store
\* (@transaction.atomic): the row is created with status 'ready', or the
\* call raises and nothing is created.
create_vector_store(u, fails) ==
    /\ Cardinality(FreeStores) > Cardinality({w \in Uploaders \ {u} : ReadyStores(w) = {}})
    /\ fails => ConfigUsable
    /\ Inject(fails)
    /\ IF ConfigUsable /\ ~fails
       THEN vstores' = [vstores EXCEPT ![NextStore] =
                [exists |-> TRUE, user |-> u, status |-> "ready",
                 error_message |-> NULL]]
       ELSE UNCHANGED vstores
    /\ UNCHANGED <<docVars, apiVars, queue, nextTid, indexVars, cfgVars, chatVars, addReq, progress, restVars>>

\* embedding_id = f"{document.id}_{chunk.chunk_index}"
EmbeddingId(d, chunk) == <<d, chunk.chunk_index>>

\* The ids of the records built for the chunks of d, in queryset order.
RecordIds(d) == [k \in 1..Len(chunks[d]) |-> EmbeddingId(d, chunks[d][k])]

\* chromadb collection.add rejects a batch that names an id twice.
DuplicateIds(ids) ==
    \E i, j \in 1..Len(ids) : i # j /\ ids[i] = ids[j]

\* The Embedding rows bulk_create is asked to insert (without primary keys).
EmbeddingsToCreate(v, d, ids) ==
    {[doc |-> d, pos |-> k, vs |-> v, embedding_id |-> ids[k]] :
        k \in 1..Len(ids)}

\* The Embedding model without its unique_together constraint.
UniqueTogetherViolated_Off(rows, new) == FALSE

\* Embedding.Meta.unique_together = ('document_chunk', 'vector_store')
UniqueTogetherViolated(rows, new) ==
    \E r \in rows, n \in new :
        r.doc = n.doc /\ r.pos = n.pos /\ r.vs = n.vs

\* Primary keys for newly inserted rows.
WithKeys(new, first) ==
    {[id |-> first + n.pos - 1, doc |-> n.doc, pos |-> n.pos, vs |-> n.vs,
      embedding_id |-> n.embedding_id] : n \in new}

AddFaults == {"none", "provider", "embed", "backend", "persist", "associate"}

\* The step at which add_document_to_vector_store(v, d) raises, "none" if it
\* runs to the end.  fault names an injected failure of a collaborator.
FailingStep(v, d, fault) ==
    IF ~vstores[v].exists \/ ~docs[d].exists THEN "load"
    ELSE IF fault = "provider" THEN "provider"
    ELSE IF Len(chunks[d]) = 0 THEN "chunks"
    ELSE IF fault = "embed" THEN "embed"
    ELSE IF fault = "backend" \/ DuplicateIds(RecordIds(d)) THEN "backend"
    ELSE IF fault = "persist"
            \/ UniqueTogetherViolated(embeddings,
                                      EmbeddingsToCreate(v, d, RecordIds(d)))
         THEN "persist"
    ELSE IF fault = "associate" THEN "associate"
    ELSE "none"

\* Steps after the backend upsert: the records stay in the collection even
\* when the call fails, the backend is not part of the transaction.
AfterUpsert == {"persist", "associate", "none"}

\* str(e) of the exception raised at a step
ErrorText(step) ==
    IF step = "chunks" THEN "No chunks found for document"
    ELSE IF step = "persist" THEN "IntegrityError"
    ELSE step

\* A call without the decorator: its writes are kept also when it raises.
Atomic_NoRollback(raises, before, inside) == inside

\* @transaction.atomic: the writes made inside the decorated call are kept
\* when it returns and undone when it raises.
Atomic(raises, before, inside) == IF raises THEN before ELSE inside

\* VectorStoreManager.add_document_to_vector_store(v, d)
add_document_to_vector_store(v, d, fault) ==
    LET step == FailingStep(v, d, fault)
        raises == step # "none"
        ids == RecordIds(d)
        new == EmbeddingsToCreate(v, d, ids)
        \* the row as the call leaves it inside its transaction: 'ready' at
        \* the end of the try block, 'failed' with str(e) from the except block
        inside == IF raises
                  THEN [vstores[v] EXCEPT !.status = "failed",
                                          !.error_message = ErrorText(step)]
                  ELSE [vstores[v] EXCEPT !.status = "ready"]
    IN  /\ vstores' = IF step = "load" THEN vstores
                      ELSE [vstores EXCEPT ![v] = Atomic(raises, @, inside)]
        /\ embeddings' = Atomic(raises, embeddings,
                                embeddings \cup WithKeys(new, nextRow))
        /\ nextRow' = IF raises THEN nextRow ELSE nextRow + Len(ids)
        /\ vsDocs' = [vsDocs EXCEPT ![v] = Atomic(raises, @, @ \cup {d})]
        /\ backend' = IF step \in AfterUpsert
                      THEN [backend EXCEPT ![v] =
                               @ \cup {ids[k] : k \in 1..Len(ids)}]
                      ELSE backend
        /\ lastAdd' = [lastAdd EXCEPT ![v] =
                          [called |-> TRUE, doc |-> d, step |-> step,
                           injected |-> fault # "none",
                           rerun |-> d \in vsDocs[v]]]

\* Every message the broker can hold: each save of a completed document
\* sends one, and a document is saved by complete_save and by API updates.
TaskMessages ==
    [tid : 1..(Cardinality(Docs) + MaxApiSaves), vs : VSIds, doc : Docs,
     retries : 0..max_retries]

\* Celery task embed_document (max_retries=3): run the manager; on an
\* exception self.retry() re-queues the task with retries + 1, unless that
\* exceeds max_retries, in which case the exception is raised and the task
\* ends.
embed_document(t, fault) ==
    /\ t \in queue
    /\ fault # "none" => FailingStep(t.vs, t.doc, fault) = fault
    /\ Inject(fault # "none")
    /\ add_document_to_vector_store(t.vs, t.doc, fault)
    /\ queue' = IF FailingStep(t.vs, t.doc, fault) = "none"
                   \/ t.retries + 1 > max_retries
                THEN queue \ {t}
                ELSE (queue \ {t}) \cup {[t EXCEPT !.retries = @ + 1]}
    /\ UNCHANGED <<docVars, apiVars, nextTid, cfgVars, chatVars, addReq, progress, restVars>>

\* ------------------------------------------- add-document endpoint (views)
NoReq == [made |-> FALSE, cross |-> FALSE, outcome |-> NULL]

\* AddDocumentToVectorStoreView.get_vector_store_instance:
\* VectorStoreInstance.objects.get(id=instance_id, user=request.user)
get_vector_store_instance(v, u) == vstores[v].exists /\ vstores[v].user = u

\* AddDocumentToVectorStoreSerializer.validate_document_id:
\* Document.objects.get(id=value, user=user)
validate_document_id(d, u) == docs[d].exists /\ docs[d].user = u

\* The response of AddDocumentToVectorStoreView.create.  With the instance
\* and the document both found for the requester, the view calls
\* VectorStoreManager.add_document_to_vector_store on the class, without an
\* instance: the call raises TypeError (no self) before the method body runs.
AddResponse(u, v, d) ==
    IF ~get_vector_store_instance(v, u) THEN "not_found"
    ELSE IF ~validate_document_id(d, u) THEN "invalid"
    ELSE "server_error"

\* POST /vectorstores/instances/{v}/documents/ {document_id: d} by user u,
\* for an instance and a document that exist.
AddDocumentToVectorStoreView_create(u, v, d) ==
    /\ vstores[v].exists /\ docs[d].exists
    /\ addReq' = [made |-> TRUE,
                  cross |-> vstores[v].user # u \/ docs[d].user # u,
                  outcome |-> AddResponse(u, v, d)]
    /\ UNCHANGED <<docVars, apiVars, hookVars, indexVars, faults, cfgVars,
                   chatVars, progress, restVars>>

\* ------------------------------------------------------- chat (chat/, llm/)
SessIds == 1..MaxSessions
Reqs == 1..MaxPosts

\* ChatSession.vector_store is nullable: 0 stands for NULL among the ids.
NoVS == 0

\* ChatSession.title default
DefaultTitle == "New Chat"
Titles == {DefaultTitle, "Budget"}

\* The text posted by message request r; every request has its own.
ContentOf(r) == "message " \o ToString(r)

NoSession == [exists |-> FALSE, user |-> NULL, title |-> NULL,
              vector_store |-> NoVS, is_active |-> FALSE]

\* The system welcome message create_session adds.
Welcome == [message_type |-> "system",
            content |-> <<"How can I help you today?">>,
            references |-> NULL]

NoPost == [pc |-> "idle", via |-> NULL, user |-> NULL, session |-> 0,
           content |-> NULL, vs |-> NoVS, fault |-> NULL, history |-> <<>>,
           response_dict |-> [status |-> NULL], returned |-> NULL]

ChatEmpty ==
    /\ sessions = [s \in SessIds |-> NoSession]
    /\ messages = [s \in SessIds |-> <<>>]
    /\ posts = [r \in Reqs |-> NoPost]

\* dict.get(key, default)
Get(dict, key, default) == IF key \in DOMAIN dict THEN dict[key] ELSE default

FreeSessions == {s \in SessIds : ~sessions[s].exists}
NextSession == CHOOSE s \in FreeSessions : \A w \in FreeSessions : s <= w

\* ChatSession.objects.get(id=session_id) that ignores the user.
OwnedBy_AnyUser(s, u) == sessions[s].exists

\* ChatSession.objects.get(id=session_id, user=user) finds a row
OwnedBy(s, u) == sessions[s].exists /\ sessions[s].user = u

\* ChatService.get_user_sessions
get_user_sessions(u) ==
    {s \in SessIds : sessions[s].exists /\ sessions[s].user = u
                     /\ sessions[s].is_active}

\* ChatSessionViewSet.get_queryset, the rows of GET /chat/sessions/
get_queryset(u) == {s \in SessIds : sessions[s].exists /\ sessions[s].user = u}

\* ChatService.create_session(user, title, vector_store_id): the session row
\* and its welcome message, in one transaction.  No check relates the
\* vector store to the user.
create_session(u, title, vs) ==
    /\ FreeSessions # {}
    /\ vs # NoVS => vstores[vs].exists
    /\ sessions' = [sessions EXCEPT ![NextSession] =
                       [exists |-> TRUE, user |-> u, title |-> title,
                        vector_store |-> vs, is_active |-> TRUE]]
    /\ messages' = [messages EXCEPT ![NextSession] = <<Welcome>>]
    /\ UNCHANGED <<posts, docVars, apiVars, hookVars, indexVars, faults,
                   cfgVars, addReq, progress, restVars>>

\* POST /chat/sessions/ (ChatSessionViewSet.create).  The serializer turns
\* 'vector_store' into a VectorStoreInstance, which the view passes on as
\* vector_store_id: the insert then fails on the value (not a UUID) and the
\* transaction of create_session is rolled back.  With the default title
\* the view goes on to generate_session_title.delay(...), but
\* generate_session_title is a plain function (its task decorator is
\* commented out): AttributeError, after the session was committed.
ChatSessionViewSet_create(u, title, vs) ==
    /\ vs # NoVS => vstores[vs].exists
    /\ IF vs # NoVS
       THEN UNCHANGED vars
       ELSE create_session(u, title, NoVS)

\* ChatSessionUpdateSerializer.validate_vector_store
validate_vector_store(value, u) ==
    value = NoVS \/ (vstores[value].exists /\ vstores[value].user = u)

\* The fields PUT/PATCH /chat/sessions/{s}/ may carry.
Updates ==
    [title : {"Budget"}] \cup [vector_store : {NoVS} \cup VSIds]

\* ChatSessionViewSet.update: get_object() on the requester's sessions,
\* serializer validation, serializer.save().
ChatSessionViewSet_update(u, s, data) ==
    /\ OwnedBy(s, u)
    /\ "vector_store" \in DOMAIN data =>
          (data.vector_store # NoVS => vstores[data.vector_store].exists)
    /\ IF "vector_store" \in DOMAIN data
          /\ ~validate_vector_store(data.vector_store, u)
       THEN UNCHANGED sessions
       ELSE sessions' = [sessions EXCEPT
               ![s].title = Get(data, "title", @),
               ![s].vector_store = Get(data, "vector_store", @)]
    /\ UNCHANGED <<messages, posts, docVars, apiVars, hookVars, indexVars,
                   faults, cfgVars, addReq, progress, restVars>>

\* ChatService.delete_session: session.is_active = False; session.save()
delete_session(s, u) ==
    IF OwnedBy(s, u)
    THEN sessions' = [sessions EXCEPT ![s].is_active = FALSE]
    ELSE UNCHANGED sessions

\* DELETE /chat/sessions/{s}/ (ChatSessionViewSet.destroy)
ChatSessionViewSet_destroy(u, s) ==
    /\ s \in get_queryset(u)
    /\ delete_session(s, u)
    /\ UNCHANGED <<messages, posts, docVars, apiVars, hookVars, indexVars,
                   faults, cfgVars, addReq, progress, restVars>>

\* The ChatMessage row of a user turn.
UserMessage(c) == [message_type |-> "user", content |-> <<c>>,
                   references |-> NULL]

\* ChatService.add_user_message(session_id, user, content): "raised" when
\* the (id, user) lookup finds no row (DoesNotExist is re-raised), "none"
\* when the owner check returns None, "created" when the row is inserted.
add_user_message(s, u) ==
    IF ~OwnedBy(s, u) THEN "raised"
    ELSE IF sessions[s].user # u THEN "none"
    ELSE "created"

\* ChatService.format_chat_history that drops the user turns.
format_chat_history_SkipsUser(msgs) ==
    LET kept == SelectSeq(msgs, LAMBDA m : m.message_type # "user")
    IN  [k \in 1..Len(kept) |->
            [role |-> "assistant", content |-> kept[k].content]]

\* ChatService.format_chat_history: system messages are skipped, the others
\* become role/content pairs.
format_chat_history(msgs) ==
    LET kept == SelectSeq(msgs, LAMBDA m : m.message_type # "system")
    IN  [k \in 1..Len(kept) |->
            [role |-> IF kept[k].message_type = "user" THEN "user"
                      ELSE "assistant",
             content |-> kept[k].content]]

\* Failures of the collaborators of the generation step.
GenFaults == {"none", "retriever", "llm"}

\* VectorStoreManager.get_retriever raises (instance missing or not ready,
\* or the provider fails).
RetrieverFails(v, fault) ==
    \/ ~vstores[v].exists
    \/ vstores[v].status # "ready"
    \/ fault = "retriever"

\* retrieval_chain.invoke: the answer and the retrieved context documents.
retrieval_chain_invoke(v) ==
    [answer |-> <<"answer">>, context |-> backend[v]]

\* RetrieverService.get_answer_with_sources returns response["answer"].
get_answer_with_sources(v) == retrieval_chain_invoke(v).answer

\* llm.tasks.process_retrieval_query: every exception becomes an error dict.
process_retrieval_query(v, fault) ==
    IF RetrieverFails(v, fault)
    THEN [answer |-> <<"I'm sorry, I couldn't process your request at this time.">>,
          status |-> "error", error |-> "Failed to get retriever"]
    ELSE IF fault = "llm"
    THEN [answer |-> <<"I'm sorry, I couldn't process your request at this time.">>,
          status |-> "error", error |-> "Failed to generate answer"]
    ELSE [answer |-> get_answer_with_sources(v), status |-> "success"]

\* llm.tasks.generate_direct_response
generate_direct_response(fault) ==
    IF fault = "llm"
    THEN [response |-> <<"I'm sorry, I couldn't generate a response at this time.">>,
          status |-> "error", error |-> "Failed to generate response"]
    ELSE [response |-> <<"response">>, status |-> "success"]

\* The text process_message stores for a failed generation.
Apology(error_msg) == <<"I'm sorry, I encountered an error: ", error_msg>>

\* process_message storing the answer whatever the status of the result.
AssistantReply_IgnoresStatus(vs, rd) ==
    [message_type |-> "assistant",
     content |-> Get(rd, IF vs # NoVS THEN "answer" ELSE "response", <<"">>),
     references |-> NULL]

\* The assistant message process_message stores for the result rd of the
\* generation step (lines 183-241), vs the session's vector store.
AssistantReply(vs, rd) ==
    IF Get(rd, "status", NULL) = "success"
    THEN [message_type |-> "assistant",
          content |-> Get(rd, IF vs # NoVS THEN "answer" ELSE "response", <<"">>),
          references |-> IF vs # NoVS THEN Get(rd, "references", NULL)
                         ELSE NULL]
    ELSE [message_type |-> "assistant",
          content |-> Apology(Get(rd, "error", "Unknown error occurred")),
          references |-> NULL]

chatFrame == <<docVars, apiVars, hookVars, indexVars, faults, cfgVars,
               addReq, progress, restVars>>

\* POST /chat/sessions/{s}/messages/ (ChatMessageViewSet.create), up to the
\* call of process_user_message: get_chat_session (404 for a session that
\* is not the requester's), then ChatService.add_user_message.
ChatMessageViewSet_create(r, u, s) ==
    /\ posts[r].pc = "idle"
    /\ \A q \in Reqs : q < r => posts[q].pc # "idle"
    /\ sessions[s].exists
    /\ LET added == add_user_message(s, u)
           next == IF ~OwnedBy(s, u) THEN "not_found"
                   ELSE IF added = "created" THEN "accepted"
                   ELSE "bad_request"
       IN  /\ posts' = [posts EXCEPT ![r] =
                  [@ EXCEPT !.pc = next, !.via = "view", !.user = u,
                            !.session = s, !.content = ContentOf(r)]]
           /\ messages' = IF next = "accepted"
                          THEN [messages EXCEPT ![s] = Append(@, UserMessage(ContentOf(r)))]
                          ELSE messages
    /\ UNCHANGED <<sessions, chatFrame>>

\* ChatService.add_user_message called directly for session s and user u.
add_user_message_call(r, u, s) ==
    /\ posts[r].pc = "idle"
    /\ \A q \in Reqs : q < r => posts[q].pc # "idle"
    /\ sessions[s].exists
    /\ LET added == add_user_message(s, u)
       IN  /\ posts' = [posts EXCEPT ![r] =
                  [@ EXCEPT !.pc = "svc_" \o added, !.via = "service",
                            !.user = u, !.session = s, !.content = ContentOf(r)]]
           /\ messages' = IF added = "created"
                          THEN [messages EXCEPT ![s] = Append(@, UserMessage(ContentOf(r)))]
                          ELSE messages
    /\ UNCHANGED <<sessions, chatFrame>>

\* process_user_message -> ChatService.process_message, lines 160-167:
\* get_session, then add_user_message once more.
process_message_add(r) ==
    /\ posts[r].pc = "accepted"
    /\ LET s == posts[r].session
           added == add_user_message(s, posts[r].user)
       IN  /\ posts' = [posts EXCEPT ![r] =
                  [@ EXCEPT !.pc = IF added = "created" THEN "added" ELSE "done",
                            !.vs = sessions[s].vector_store,
                            !.returned = IF added = "created" THEN @ ELSE "error"]]
           /\ messages' = IF added = "created"
                          THEN [messages EXCEPT ![s] =
                                   Append(@, UserMessage(posts[r].content))]
                          ELSE messages
    /\ UNCHANGED <<sessions, chatFrame>>

\* process_message lines 170-181 / 215-218: read and format the history,
\* then the generation step for the mode of the session.
process_message_generate(r, fault) ==
    /\ posts[r].pc = "added"
    /\ fault = "retriever" => posts[r].vs # NoVS
    /\ posts' = [posts EXCEPT ![r] =
          [@ EXCEPT !.pc = "generated",
                    !.fault = fault,
                    !.history = format_chat_history(messages[posts[r].session]),
                    !.response_dict =
                        IF posts[r].vs # NoVS
                        THEN process_retrieval_query(posts[r].vs, fault)
                        ELSE generate_direct_response(fault)]]
    /\ UNCHANGED <<sessions, messages, chatFrame>>

\* process_message lines 183-241: add_assistant_message and the result;
\* the locals of the call (history, result dict) end with it.
process_message_reply(r) ==
    /\ posts[r].pc = "generated"
    /\ messages' = [messages EXCEPT ![posts[r].session] =
          Append(@, AssistantReply(posts[r].vs, posts[r].response_dict))]
    /\ posts' = [posts EXCEPT ![r] =
          [@ EXCEPT !.pc = "done",
                    !.fault = NULL,
                    !.history = <<>>,
                    !.response_dict = [status |-> NULL],
                    !.returned = Get(posts[r].response_dict, "status", NULL)]]
    /\ UNCHANGED <<sessions, chatFrame>>

\* ----------------------------------------------- ProcessingStatus progress
NoProgress == [read |-> FALSE, value |-> 0]

\* total_pages and processed_pages are IntegerFields.
PageValues == (0 - MaxPages)..MaxPages

Abs(n) == IF n < 0 THEN 0 - n ELSE n

\* int((processed_pages / total_pages) * 100): the quotient cut towards
\* zero (on PageValues the float product cuts to the same integer).
IntPercent(processed, total) ==
    LET q == (Abs(processed) * 100) \div Abs(total)
    IN  IF (processed < 0) # (total < 0) THEN 0 - q ELSE q

\* ProcessingStatus.progress_percentage
progress_percentage(p) ==
    IF p.total_pages = 0 THEN 0
    ELSE LET v == IntPercent(p.processed_pages, p.total_pages)
         IN  IF v > 100 THEN 100 ELSE v

\* A reader (ProcessingStatusSerializer) evaluates the property.
read_progress(d) ==
    /\ ps[d].exists
    /\ progress' = [read |-> TRUE, value |-> progress_percentage(ps[d])]
    /\ UNCHANGED <<docVars, apiVars, hookVars, indexVars, faults, cfgVars,
                   chatVars, addReq, restVars>>

\* ------------------------------------------- document deletion (document/)
\* DocumentService.delete_document (DocumentViewSet.destroy), for a document
\* whose processing has ended: the stored file is deleted, then
\* document.delete() removes the row and, by on_delete=CASCADE, its
\* ProcessingStatus, its DocumentChunk rows and their Embedding rows, and
\* the rows of VectorStoreInstance.documents.  No call is made to a vector
\* store provider.  A deleted id is never used again.
delete_document(d) ==
    /\ docs[d].exists
    /\ pc[d] = "done"
    /\ ~apiSnap[d].loaded
    /\ docs' = [docs EXCEPT ![d] = NoDocument]
    /\ ps' = [ps EXCEPT ![d] = NoProcessingStatus]
    /\ chunks' = [chunks EXCEPT ![d] = <<>>]
    /\ embeddings' = {e \in embeddings : e.doc # d}
    /\ vsDocs' = [v \in VSIds |-> vsDocs[v] \ {d}]
    /\ pc' = [pc EXCEPT ![d] = "deleted"]
    /\ UNCHANGED <<ctx, file, err, apiVars, hookVars, nextRow, backend, lastAdd,
                   faults, cfgVars, chatVars, addReq, progress, restVars>>

\* ------------------------------------- PDFExtractor (utils/pdf_extractor.py)
Calls == 1..MaxCalls

\* File names by stem and suffix.
FileNames == {[stem |-> "report", suffix |-> ".pdf"],
              [stem |-> "REPORT", suffix |-> ".PDF"],
              [stem |-> "notes", suffix |-> ".txt"]}

\* str.lower() on the suffixes above
lower(suffix) == IF suffix = ".PDF" THEN ".pdf" ELSE suffix

\* file_name.lower().endswith('.pdf')
endswith_pdf(name) == lower(name.suffix) = ".pdf"

\* temp_path of a call that has not created its temporary file
NoPath == 0

NoExtract == [pc |-> "idle", file_name |-> [stem |-> NULL, suffix |-> NULL],
              pages |-> <<>>, temp_path |-> NoPath, outcome |-> NULL]

\* PDFExtractor.extract_from_bytes(file_content, file_name), lines 83-87:
\* the suffix check, outside the try block.
extract_from_bytes(c, name, f) ==
    /\ extract[c].pc = "idle"
    /\ \A q \in Calls : q < c => extract[q].pc # "idle"
    /\ extract' = [extract EXCEPT ![c] =
          IF endswith_pdf(name)
          THEN [@ EXCEPT !.pc = "tempfile", !.file_name = name, !.pages = f]
          ELSE [@ EXCEPT !.pc = "raised", !.file_name = name, !.pages = f,
                         !.outcome = "InvalidFileFormatError"]]
    /\ UNCHANGED <<tmpfiles, extractFrame>>

\* lines 92-95: NamedTemporaryFile(delete=False, suffix='.pdf'); every call
\* gets a file name of its own.
create_temp_file(c) ==
    /\ extract[c].pc = "tempfile"
    /\ tmpfiles' = tmpfiles \cup {c}
    /\ extract' = [extract EXCEPT ![c] = [@ EXCEPT !.pc = "parse", !.temp_path = c]]
    /\ UNCHANGED extractFrame

\* line 98, PDFExtractor.extract_from_file(temp_path): the loader raises, or
\* returns no page (DocumentExtractionError raised inside the try), or the
\* pages are returned.  Every exception arrives in the except clause of
\* extract_from_bytes (lines 109-111), which raises DocumentExtractionError.
extract_from_file(c, loaderRaises) ==
    /\ extract[c].pc = "parse"
    /\ extract' = [extract EXCEPT ![c] =
          IF loaderRaises \/ Len(extract[c].pages) = 0
          THEN [@ EXCEPT !.pc = "raised", !.outcome = "DocumentExtractionError"]
          ELSE [@ EXCEPT !.pc = "cleanup"]]
    /\ UNCHANGED <<tmpfiles, extractFrame>>

\* lines 101-107: os.unlink(temp_path), a failure of which is logged and
\* swallowed; return results.
unlink_and_return(c, unlinkFails) ==
    /\ extract[c].pc = "cleanup"
    /\ tmpfiles' = IF unlinkFails THEN tmpfiles
                   ELSE tmpfiles \ {extract[c].temp_path}
    /\ extract' = [extract EXCEPT ![c] =
                      [@ EXCEPT !.pc = "returned", !.outcome = "pages"]]
    /\ UNCHANGED extractFrame

\* --------------------- concurrent add_document_to_vector_store (manager)
Txns == 1..MaxTxns

NoTxn == [pc |-> "idle", vs |-> NoVS, doc |-> NULL, overlapped |-> FALSE,
          step |-> NULL]

NoObservation == [read |-> FALSE, vs |-> NoVS, status |-> NULL,
                  indexing_in_flight |-> FALSE]

\* The calls that have started and not returned, for instance v.
InFlight(v) == {t \in Txns : txns[t].vs = v /\ txns[t].pc \in {"loaded", "indexing"}}

\* The calls whose transaction has written the row of v (lines 113-114) and
\* not ended: the writer holds the row lock until commit or rollback.
Indexing(v) == {t \in Txns : txns[t].vs = v /\ txns[t].pc = "indexing"}

\* lines 105-110: the transaction begins; the instance and the document are
\* loaded.
add_begin(t, v, d) ==
    /\ txns[t].pc = "idle"
    /\ \A q \in Txns : q < t => txns[q].pc # "idle"
    /\ vstores[v].exists /\ docs[d].exists
    /\ txns' = [q \in Txns |->
                  IF q = t
                  THEN [pc |-> "loaded", vs |-> v, doc |-> d,
                        overlapped |-> InFlight(v) # {}, step |-> NULL]
                  ELSE IF q \in InFlight(v)
                  THEN [txns[q] EXCEPT !.overlapped = TRUE]
                  ELSE txns[q]]
    /\ UNCHANGED <<observed, coreVars, extractVars, workerVars, hookRunVars>>

\* lines 113-114: status = 'indexing', saved inside the transaction.  The
\* UPDATE waits for the row lock; the new value is not committed.
add_set_indexing(t) ==
    /\ txns[t].pc = "loaded"
    /\ Indexing(txns[t].vs) = {}
    /\ txns' = [txns EXCEPT ![t].pc = "indexing"]
    /\ UNCHANGED <<observed, coreVars, extractVars, workerVars, hookRunVars>>

\* lines 116-184 and the end of the transaction: the remaining steps, then
\* commit when the call returns, rollback when it raises.
add_finish(t, fault) ==
    /\ txns[t].pc = "indexing"
    /\ fault # "none" => FailingStep(txns[t].vs, txns[t].doc, fault) = fault
    /\ Inject(fault # "none")
    /\ add_document_to_vector_store(txns[t].vs, txns[t].doc, fault)
    /\ txns' = [txns EXCEPT ![t].pc = "returned",
                            ![t].step = FailingStep(txns[t].vs, txns[t].doc, fault)]
    /\ UNCHANGED <<observed, docVars, apiVars, queue, nextTid, cfgVars,
                   chatVars, addReq, progress, extractVars, workerVars, hookRunVars>>

\* A reader in another connection (get_retriever line 198, the auto-index
\* query) loads the row: it sees the committed value.
read_instance(v) ==
    /\ vstores[v].exists
    /\ observed' = [read |-> TRUE, vs |-> v, status |-> vstores[v].status,
                    indexing_in_flight |-> Indexing(v) # {}]
    /\ UNCHANGED <<txns, coreVars, extractVars, workerVars, hookRunVars>>

\* ------------------------------ embedding model handles (embedding_service.py)
\* EmbeddingModel rows, by id
ModelIds == {"m1", "m2"}

JobKinds == {"embed_document", "process_retrieval_query"}

\* EmbeddingService.__init__: self.embedding_models = {}
NewEmbeddingService == {}

NoJob == [kind |-> NULL, model |-> NULL, embedding_models |-> {}]

\* The worker before its first job; loads counts the constructions of a
\* model handle (HuggingFaceEmbeddings(...)) made in the process.
IdleWorker == [busy |-> FALSE, job |-> NoJob, jobs |-> 0,
               loads |-> [m \in ModelIds |-> 0], reused |-> FALSE]

\* EmbeddingService.get_embedding_model on a service whose dictionary holds
\* the handles of the models in cache: TRUE when the handle is initialized.
Initializes(cache, model_id) == model_id \notin cache

\* A job starts: embed_document (tasks.py line 20) and
\* process_retrieval_query (llm/tasks.py line 37) each construct a
\* VectorStoreManager, whose __init__ constructs an EmbeddingService.
start_job(kind, m) ==
    /\ ~worker.busy
    /\ worker.jobs < MaxJobs
    /\ worker' = [worker EXCEPT
          !.busy = TRUE,
          !.jobs = @ + 1,
          !.job = [kind |-> kind, model |-> m,
                   embedding_models |-> NewEmbeddingService]]
    /\ UNCHANGED workerFrame

\* The job reaches get_embedding_model (through generate_embeddings or
\* get_retriever) and ends; its manager is not kept.
get_embedding_model ==
    /\ worker.busy
    /\ LET m == worker.job.model
           init == Initializes(worker.job.embedding_models, m)
       IN  worker' = [worker EXCEPT
              !.busy = FALSE,
              !.job = NoJob,
              !.loads[m] = IF init THEN @ + 1 ELSE @,
              !.reused = ~init]
    /\ UNCHANGED workerFrame

\* ------------------------- concurrent runs of the auto-index handler (signals.py)
HookRuns == 1..MaxHooks

\* The completed document run h was called for: every run has its own.
DocOf(h) == "doc " \o ToString(h)

NoHook == [pc |-> "idle", user |-> NULL, doc |-> NULL, vector_store |-> NoVS,
           created |-> NoVS]

\* What the other components and the rest of the database do not see of a run.
hookFrame == <<docVars, apiVars, indexVars, faults, cfgVars, chatVars, addReq,
               progress, extractVars, txnVars, workerVars>>

\* lines 30-48: the query for the user's most recent ready instance and,
\* when there is none, the lookup of the default provider and embedding model.
hook_query(h, u) ==
    /\ hooks[h].pc = "idle"
    /\ \A q \in HookRuns : q < h => hooks[q].pc # "idle"
    /\ hooks' = [hooks EXCEPT ![h] =
          [pc |-> IF ReadyStores(u) # {} THEN "queue"
                  ELSE IF ~HasDefaults THEN "done"
                  ELSE "provision",
           user |-> u, doc |-> DocOf(h),
           vector_store |-> IF ReadyStores(u) # {} THEN MostRecentReady(u)
                            ELSE NoVS,
           created |-> NoVS]]
    /\ UNCHANGED <<hookVars, hookFrame>>

\* lines 50-62: manager.create_vector_store for the default store; a failure
\* is logged and the handler returns.
hook_provision(h, provisionFails) ==
    /\ hooks[h].pc = "provision"
    /\ FreeStores # {}
    /\ IF ~ProviderUsable(activeProvider) \/ provisionFails
       THEN /\ hooks' = [hooks EXCEPT ![h].pc = "done"]
            /\ UNCHANGED vstores
       ELSE /\ vstores' = [vstores EXCEPT ![NextStore] =
                  [exists |-> TRUE, user |-> hooks[h].user, status |-> "ready",
                   error_message |-> NULL]]
            /\ hooks' = [hooks EXCEPT ![h].pc = "queue",
                                      ![h].vector_store = NextStore,
                                      ![h].created = NextStore]
    /\ UNCHANGED <<queue, nextTid, hookFrame>>

\* lines 65-68: embed_document.delay(vector_store.id, instance.id)
hook_enqueue(h) ==
    /\ hooks[h].pc = "queue"
    /\ Enqueue(hooks[h].vector_store, hooks[h].doc)
    /\ hooks' = [hooks EXCEPT ![h].pc = "done"]
    /\ UNCHANGED <<vstores, hookFrame>>

\* The default stores the handler has created for user u.
DefaultStores(u) ==
    {hooks[h].created : h \in {x \in HookRuns : hooks[x].user = u
                                                /\ hooks[x].created # NoVS}}

RestEmpty ==
    /\ extract = [c \in Calls |-> NoExtract]
    /\ tmpfiles = {}
    /\ txns = [t \in Txns |-> NoTxn]
    /\ observed = NoObservation
    /\ worker = IdleWorker
    /\ hooks = [h \in HookRuns |-> NoHook]

\* ------------------------------------------------------------ specification
PipelineInit ==
    /\ docs = [d \in Docs |-> NoDocument]
    /\ ps = [d \in Docs |-> NoProcessingStatus]
    /\ chunks = [d \in Docs |-> <<>>]
    /\ pc = [d \in Docs |-> "none"]
    /\ ctx = [d \in Docs |-> NULL]
    /\ file = [d \in Docs |-> <<>>]
    /\ err = [d \in Docs |-> NULL]
    /\ apiSnap = [d \in Docs |-> NoSnap]
    /\ apiSaves = 0
    /\ vstores = [v \in VSIds |-> NoStore]
    /\ vsDocs = [v \in VSIds |-> {}]
    /\ embeddings = {}
    /\ nextRow = 1
    /\ backend = [v \in VSIds |-> {}]
    /\ queue = {}
    /\ nextTid = 1
    /\ lastAdd = [v \in VSIds |-> NoAdd]
    /\ faults = 0
    /\ activeProvider \in {NULL, "chroma", "other"}
    /\ defaultEmbedding \in BOOLEAN

Init ==
    /\ PipelineInit
    /\ addReq = NoReq
    /\ ChatEmpty
    /\ progress = NoProgress
    /\ RestEmpty

Next ==
    \/ \E d \in Docs, u \in Uploaders, c \in {"autocommit", "atomic"},
          f \in Files : create_document(d, u, c, f)
    \/ \E d \in Docs : create_processing_status(d)
    \/ \E d \in Docs, fails \in BOOLEAN : start_processing(d, fails)
    \/ \E d \in Docs, fails \in BOOLEAN : extract_document_text(d, fails)
    \/ \E d \in Docs, fails \in BOOLEAN : save_extraction(d, fails)
    \/ \E d \in Docs, fault \in {"none", "chunking", "persist"} :
          process_text_chunks(d, fault)
    \/ \E d \in Docs, fails \in BOOLEAN : save_chunking(d, fails)
    \/ \E d \in Docs, fails \in BOOLEAN, pf \in BOOLEAN : complete_save(d, fails, pf)
    \/ \E d \in Docs, fails \in BOOLEAN : complete_end(d, fails)
    \/ \E d \in Docs, fails \in BOOLEAN : except_save(d, fails)
    \/ \E d \in Docs, fails \in BOOLEAN : except_end(d, fails)
    \/ \E d \in Docs : api_load(d)
    \/ \E d \in Docs, pf \in BOOLEAN : api_save(d, pf)
    \/ \E u \in Users, fails \in BOOLEAN : create_vector_store(u, fails)
    \/ \E t \in TaskMessages, fault \in AddFaults : embed_document(t, fault)

Spec == Init /\ [][Next]_vars

\* The steps of create_document and process_document for one document.
ProcessStep(d) ==
    \/ create_processing_status(d)
    \/ \E fails \in BOOLEAN : start_processing(d, fails)
    \/ \E fails \in BOOLEAN : extract_document_text(d, fails)
    \/ \E fails \in BOOLEAN : save_extraction(d, fails)
    \/ \E fault \in {"none", "chunking", "persist"} : process_text_chunks(d, fault)
    \/ \E fails \in BOOLEAN : save_chunking(d, fails)
    \/ \E fails \in BOOLEAN, pf \in BOOLEAN : complete_save(d, fails, pf)
    \/ \E fails \in BOOLEAN : complete_end(d, fails)
    \/ \E fails \in BOOLEAN : except_save(d, fails)
    \/ \E fails \in BOOLEAN : except_end(d, fails)

\* start_processing runs synchronously in the thread that committed the
\* Document row, so a started process_document keeps taking steps.
LiveSpec == Init /\ [][Next]_vars /\ \A d \in Docs : WF_vars(ProcessStep(d))

\* The pipeline together with the add-document endpoint.
AddNext ==
    \/ Next
    \/ \E u \in Users, v \in VSIds, d \in Docs :
          AddDocumentToVectorStoreView_create(u, v, d)

AddSpec == Init /\ [][AddNext]_vars
\* A state the pipeline reaches: u1's document d1 processed and indexed in
\* u1's instance 1, and an instance 2 created for u2.
Indexed ==
    /\ docs = [d \in Docs |-> [exists |-> TRUE, user |-> "u1",
                               status |-> "completed", error_message |-> NULL]]
    /\ ps = [d \in Docs |-> [NewProcessingStatus EXCEPT
                                !.extraction_completed = TRUE,
                                !.chunking_completed = TRUE,
                                !.total_pages = 1, !.processed_pages = 1,
                                !.end_time = TRUE]]
    /\ chunks = [d \in Docs |-> split_documents(<<2>>)]
    /\ pc = [d \in Docs |-> "done"]
    /\ ctx = [d \in Docs |-> "atomic"]
    /\ file = [d \in Docs |-> <<2>>]
    /\ err = [d \in Docs |-> NULL]
    /\ apiSnap = [d \in Docs |-> NoSnap]
    /\ apiSaves = 0
    /\ vstores = [v \in VSIds |->
                     IF v <= 2
                     THEN [exists |-> TRUE,
                           user |-> IF v = 1 THEN "u1" ELSE "u2",
                           status |-> "ready", error_message |-> NULL]
                     ELSE NoStore]
    /\ vsDocs = [v \in VSIds |-> IF v = 1 THEN {"d1"} ELSE {}]
    /\ embeddings = WithKeys(EmbeddingsToCreate(1, "d1", RecordIds("d1")), 1)
    /\ nextRow = 3
    /\ backend = [v \in VSIds |->
                     IF v = 1 THEN {<<"d1", 0>>, <<"d1", 1>>} ELSE {}]
    /\ queue = {}
    /\ nextTid = 2
    /\ lastAdd = [v \in VSIds |->
                     IF v = 1
                     THEN [called |-> TRUE, doc |-> "d1", step |-> "none",
                           injected |-> FALSE, rerun |-> FALSE]
                     ELSE NoAdd]
    /\ faults = 0
    /\ activeProvider = "chroma"
    /\ defaultEmbedding = TRUE

\* Chat on top of an indexed knowledge base.
ChatInit ==
    /\ Indexed
    /\ addReq = NoReq
    /\ ChatEmpty
    /\ progress = NoProgress
    /\ RestEmpty

ChatNext ==
    \/ \E u \in Uploaders, t \in Titles, v \in {NoVS} \cup VSIds :
          create_session(u, t, v)
    \/ \E u \in Uploaders, t \in Titles, v \in {NoVS} \cup VSIds :
          ChatSessionViewSet_create(u, t, v)
    \/ \E u \in Users, s \in SessIds, data \in Updates :
          ChatSessionViewSet_update(u, s, data)
    \/ \E u \in Users, s \in SessIds : ChatSessionViewSet_destroy(u, s)
    \/ \E r \in Reqs, u \in Users, s \in SessIds : ChatMessageViewSet_create(r, u, s)
    \/ \E r \in Reqs, u \in Users, s \in SessIds : add_user_message_call(r, u, s)
    \/ \E r \in Reqs : process_message_add(r)
    \/ \E r \in Reqs, fault \in GenFaults : process_message_generate(r, fault)
    \/ \E r \in Reqs : process_message_reply(r)

ChatSpec == ChatInit /\ [][ChatNext]_vars
\* A ProcessingStatus row holding any page counts of the field's type.
ProgressInit ==
    /\ docs = [d \in Docs |-> [exists |-> TRUE, user |-> "u1",
                               status |-> "pending", error_message |-> NULL]]
    /\ \E t \in PageValues, n \in PageValues :
          ps = [d \in Docs |-> [NewProcessingStatus EXCEPT
                                   !.total_pages = t, !.processed_pages = n]]
    /\ chunks = [d \in Docs |-> <<>>]
    /\ pc = [d \in Docs |-> "done"]
    /\ ctx = [d \in Docs |-> "atomic"]
    /\ file = [d \in Docs |-> <<>>]
    /\ err = [d \in Docs |-> NULL]
    /\ apiSnap = [d \in Docs |-> NoSnap]
    /\ apiSaves = 0
    /\ vstores = [v \in VSIds |-> NoStore]
    /\ vsDocs = [v \in VSIds |-> {}]
    /\ embeddings = {}
    /\ nextRow = 1
    /\ backend = [v \in VSIds |-> {}]
    /\ queue = {}
    /\ nextTid = 1
    /\ lastAdd = [v \in VSIds |-> NoAdd]
    /\ faults = 0
    /\ activeProvider = NULL
    /\ defaultEmbedding = FALSE
    /\ addReq = NoReq
    /\ ChatEmpty
    /\ progress = NoProgress
    /\ RestEmpty

ProgressNext == \E d \in Docs : read_progress(d)

ProgressSpec == ProgressInit /\ [][ProgressNext]_vars
\* Calls of the PDF extractor, nothing else running.
ExtractInit ==
    /\ Init
    /\ activeProvider = NULL
    /\ defaultEmbedding = FALSE

ExtractNext ==
    \/ \E c \in Calls, name \in FileNames, f \in Files :
          extract_from_bytes(c, name, f)
    \/ \E c \in Calls : create_temp_file(c)
    \/ \E c \in Calls, loaderRaises \in BOOLEAN : extract_from_file(c, loaderRaises)
    \/ \E c \in Calls, unlinkFails \in BOOLEAN : unlink_and_return(c, unlinkFails)

ExtractSpec == ExtractInit /\ [][ExtractNext]_vars
\* Overlapping calls of add_document_to_vector_store and readers, on the
\* indexed knowledge base.
IndexNext ==
    \/ \E t \in Txns, v \in VSIds, d \in Docs : add_begin(t, v, d)
    \/ \E t \in Txns : add_set_indexing(t)
    \/ \E t \in Txns, fault \in AddFaults : add_finish(t, fault)
    \/ \E v \in VSIds : read_instance(v)

IndexSpec == ChatInit /\ [][IndexNext]_vars
\* One worker process running embedding and retrieval jobs one after another.
WorkerNext ==
    \/ \E kind \in JobKinds, m \in ModelIds : start_job(kind, m)
    \/ get_embedding_model

WorkerSpec == ExtractInit /\ [][WorkerNext]_vars
\* Documents completing in concurrent request threads: each save runs the
\* auto-index handler in its own thread.
HookNext ==
    \/ \E h \in HookRuns, u \in Users : hook_query(h, u)
    \/ \E h \in HookRuns, pf \in BOOLEAN : hook_provision(h, pf)
    \/ \E h \in HookRuns : hook_enqueue(h)

HookSpec == Init /\ [][HookNext]_vars
\* The pipeline together with the deletion of documents.
DeleteNext ==
    \/ Next
    \/ \E d \in Docs : delete_document(d)

DeleteSpec == Init /\ [][DeleteNext]_vars
\* ------------------------------------------------------------------ claims
Finished == {"create_ps", "done"}
Running == {"start", "extract", "ps1", "chunk", "ps2", "complete",
            "complete_end", "except", "except_end"}

\* C1: a Document's status only moves pending -> processing -> completed or
\* pending -> processing -> failed; it never returns to pending and never
\* leaves completed or failed.
C1_StatusMonotonic ==
    [][\A d \in Docs :
          (docs[d].exists /\ docs'[d].status # docs[d].status)
          => <<docs[d].status, docs'[d].status>> \in
                {<<"pending", "processing">>, <<"processing", "completed">>,
                 <<"processing", "failed">>}]_vars

\* C2: whenever process_document can run for a document, the document
\* already has its ProcessingStatus row.
C2_StatusRowBeforeProcessing ==
    \A d \in Docs : pc[d] \in Running => ps[d].exists

\* C3: when a step of process_document raises after the switch to
\* processing, recording the failure leaves the document failed with the
\* exception text, and the document has not become completed.
C3_FailureRecorded ==
    [][\A d \in Docs :
          (pc[d] = "except" /\ pc'[d] = "except_end")
          => /\ docs'[d].status = "failed"
             /\ docs'[d].error_message = err[d]
             /\ docs[d].status # "completed"]_vars

\* C4: once the chunks of a document are persisted their chunk_index values
\* are exactly 0..n-1, n the number of chunks, without duplicates.
C4_ChunkIndexContiguous ==
    \A d \in Docs :
        LET n == Len(chunks[d]) IN
        /\ {chunks[d][k].chunk_index : k \in 1..n} = 0..(n - 1)
        /\ \A j, k \in 1..n :
              chunks[d][j].chunk_index = chunks[d][k].chunk_index => j = k

\* C5: there is at most one Embedding row per (document chunk, vector store
\* instance) pair, also after repeated indexing of the same document.
C5_OneEmbeddingPerPair ==
    \A r1, r2 \in embeddings :
        (r1.doc = r2.doc /\ r1.pos = r2.pos /\ r1.vs = r2.vs) => r1 = r2

\* C5 witness: add_document_to_vector_store ran again for a document that
\* already has Embedding rows in that instance.
C5_Witness ==
    \E v \in VSIds :
        /\ lastAdd[v].called
        /\ lastAdd[v].rerun
        /\ \E r \in embeddings : r.vs = v /\ r.doc = lastAdd[v].doc

\* C6: re-running add_document_to_vector_store for a document already indexed
\* in the instance succeeds (no collaborator failing).
C6_RerunSucceeds ==
    \A v \in VSIds :
        (lastAdd[v].called /\ lastAdd[v].rerun /\ ~lastAdd[v].injected)
        => lastAdd[v].step = "none"

\* C7: after a failed add_document_to_vector_store the instance's persisted
\* status is failed and its error_message is the exception text.
C7_FailurePersisted ==
    \A v \in VSIds :
        (lastAdd[v].called /\ lastAdd[v].step \notin {"none", "load"})
        => /\ vstores[v].status = "failed"
           /\ vstores[v].error_message = ErrorText(lastAdd[v].step)

\* C8: embed_document runs add_document_to_vector_store at most 3 times: no
\* attempt beyond the third is ever scheduled.
C8_ThreeAttempts ==
    \A t \in queue : t.retries + 1 <= 3

\* C9: once a completed document has been indexed successfully, all four
\* flags of its ProcessingStatus are set (is_completed).
C9_FlagsSetByIndexing ==
    \A d \in Docs, v \in VSIds :
        (docs[d].status = "completed" /\ d \in vsDocs[v])
        => is_completed(ps[d])

\* C10: when a Document becomes completed, indexing is queued into the
\* owner's most recently created ready instance if there is one; otherwise a
\* default instance is provisioned and indexing queued into it; without an
\* active provider or embedding model, or when provisioning fails, nothing is
\* queued and no instance is created.
C10_AutoIndex ==
    [][\A d \in Docs :
          (docs[d].exists /\ docs[d].status # "completed"
              /\ docs'[d].status = "completed")
          => LET u == docs[d].user
                 R == {v \in VSIds : vstores[v].exists /\ vstores[v].user = u
                                     /\ vstores[v].status = "ready"}
                 new == queue' \ queue
             IN  /\ queue \subseteq queue'
                 /\ IF R # {}
                    THEN /\ vstores' = vstores
                         /\ \E t \in new :
                               /\ new = {t}
                               /\ t.vs \in R /\ \A w \in R : w <= t.vs
                               /\ t.doc = d /\ t.retries = 0
                    ELSE IF activeProvider = NULL \/ ~defaultEmbedding
                            \/ activeProvider \notin RegisteredProviders
                    THEN vstores' = vstores /\ new = {}
                    ELSE \/ vstores' = vstores /\ new = {}
                         \/ \E v \in VSIds :
                               /\ ~vstores[v].exists
                               /\ vstores' = [vstores EXCEPT ![v] =
                                     [exists |-> TRUE, user |-> u,
                                      status |-> "ready",
                                      error_message |-> NULL]]
                               /\ \E t \in new :
                                     /\ new = {t}
                                     /\ t.vs = v /\ t.doc = d
                                     /\ t.retries = 0]_vars

\* C10 witness: indexing of a completed document is queued into the newer of
\* its owner's two ready instances.
C10_Witness ==
    \E t \in queue, v \in VSIds :
        /\ docs[t.doc].status = "completed"
        /\ vstores[v].exists /\ vstores[v].user = docs[t.doc].user
        /\ vstores[t.vs].user = docs[t.doc].user
        /\ v < t.vs
        /\ t.retries = 0
\* C11: background work is dispatched at most once per event: process_document
\* is started only by the creation of the document, and an embed_document job
\* is queued for a document only by its transition to completed, not by a
\* later save of the completed row.
C11_DispatchAtMostOnce ==
    [][\A d \in Docs :
          /\ (pc'[d] = "start" /\ pc[d] # "start") => pc[d] = "none"
          /\ (\E t \in queue' \ queue : t.doc = d /\ t.retries = 0)
                => docs[d].status # "completed"]_vars

\* C12: a request to add a document to another user's instance, or another
\* user's document to one's own instance, fails; every document in an
\* instance's documents set and every chunk with an Embedding row in it
\* belongs to the instance's owner.
C12_OwnershipKept ==
    /\ (addReq.made /\ addReq.cross) => addReq.outcome \in {"not_found", "invalid"}
    /\ \A v \in VSIds : \A d \in vsDocs[v] : docs[d].user = vstores[v].user
    /\ \A e \in embeddings : docs[e.doc].user = vstores[e.vs].user

\* C12 witness: a cross-user add request was refused while an instance holds
\* an indexed document of its owner.
C12_Witness ==
    /\ addReq.made /\ addReq.cross
    /\ \E e \in embeddings : e.doc \in vsDocs[e.vs]

\* C13: a ChatSession's vector_store is null or an instance owned by the
\* session's user, after any sequence of session creates and updates.
C13_BindingOwned ==
    \A s \in SessIds :
        (sessions[s].exists /\ sessions[s].vector_store # NoVS)
        => vstores[sessions[s].vector_store].user = sessions[s].user

\* C14: add_user_message for a session whose owner is not the given user
\* fails with an error (not-found at the endpoint) and creates no ChatMessage.
C14_ForeignSessionRefused ==
    [][\A r \in Reqs :
          (posts[r].pc = "idle" /\ posts'[r].pc # "idle"
              /\ sessions[posts'[r].session].user # posts'[r].user)
          => /\ messages' = messages
             /\ posts'[r].pc = IF posts'[r].via = "view" THEN "not_found"
                               ELSE "svc_raised"]_vars

\* C14 witness: the service was called for a session of another user.
C14_Witness ==
    \E r \in Reqs :
        /\ posts[r].via = "service"
        /\ posts[r].pc = "svc_raised"
        /\ sessions[posts[r].session].user # posts[r].user

\* C15: a failure of the retriever or of the language model, in either mode,
\* gives a result with status error, and process_message stores exactly one
\* assistant message, an apology naming the error, and returns status error.
C15_FailureBecomesApology ==
    [][\A r \in Reqs :
          /\ (posts[r].pc = "added" /\ posts'[r].pc = "generated"
                 /\ posts'[r].fault # "none")
             => posts'[r].response_dict.status = "error"
          /\ (posts[r].pc = "generated" /\ posts'[r].pc = "done"
                 /\ posts[r].response_dict.status = "error")
             => /\ posts'[r].returned = "error"
                /\ messages'[posts[r].session] =
                      Append(messages[posts[r].session],
                             [message_type |-> "assistant",
                              content |-> <<"I'm sorry, I encountered an error: ",
                                            posts[r].response_dict.error>>,
                              references |-> NULL])
                /\ \A s \in SessIds \ {posts[r].session} :
                      messages'[s] = messages[s]]_vars

\* C15 witness: a retrieval-augmented request whose language model failed
\* ended with the apology stored.
C15_Witness ==
    \E r \in Reqs :
        LET ms == messages[posts[r].session] IN
        /\ posts[r].pc = "done"
        /\ posts[r].vs # NoVS
        /\ posts[r].returned = "error"
        /\ ms[Len(ms)].content =
              <<"I'm sorry, I encountered an error: ", "Failed to generate answer">>

C17_SoftDeleteHidden ==
    [][\A s \in SessIds :
          (sessions[s].exists /\ sessions[s].is_active
              /\ ~sessions'[s].is_active)
          => /\ sessions'[s] = [sessions[s] EXCEPT !.is_active = FALSE]
             /\ messages'[s] = messages[s]
             /\ \A u \in Users :
                   s \notin {x \in SessIds : sessions'[x].exists
                                /\ sessions'[x].user = u
                                /\ sessions'[x].is_active}
             /\ \A u \in Users :
                   s \notin {x \in SessIds : sessions'[x].exists
                                /\ sessions'[x].user = u}]_vars

\* C18: once the first user message of a session created with the default
\* title has been answered by the language model, the session's title is a
\* generated one, no longer the default.
C18_TitleGenerated ==
    \A r \in Reqs :
        (posts[r].pc = "done" /\ posts[r].via = "view"
            /\ posts[r].returned = "success")
        => sessions[posts[r].session].title # DefaultTitle

\* C19: every successful retrieval-augmented answer is stored as an assistant
\* message with non-null references.
C19_ReferencesStored ==
    [][\A r \in Reqs :
          (posts[r].pc = "generated" /\ posts'[r].pc = "done"
              /\ posts[r].vs # NoVS
              /\ posts[r].response_dict.status = "success"
              /\ backend[posts[r].vs] # {})
          => LET ms == messages'[posts[r].session]
             IN  /\ ms[Len(ms)].message_type = "assistant"
                 /\ ms[Len(ms)].references # NULL]_vars

\* C20: for all page counts a ProcessingStatus can hold, progress_percentage
\* lies within 0..100, and it is 0 whenever total_pages is 0.
C20_ProgressInRange ==
    \A d \in Docs :
        progress.read
        => /\ progress.value \in 0..100
           /\ ps[d].total_pages = 0 => progress.value = 0

\* C21: when a call of extract_from_bytes has ended, by returning the pages
\* or by raising (the parser raised, or returned zero pages), the temporary
\* file the call created is no longer on disk.
C21_TempFileRemoved ==
    \A c \in Calls :
        extract[c].pc \in {"returned", "raised"} => c \notin tmpfiles

\* C22: processing is started once per created Document, and every created
\* Document eventually reaches completed or failed.
C22_ProcessingTerminates ==
    /\ [][\A d \in Docs : (pc'[d] = "start" /\ pc[d] # "start")
                             => (~docs[d].exists /\ docs'[d].exists)]_vars
    /\ \A d \in Docs :
          docs[d].exists ~> docs[d].status \in {"completed", "failed"}

\* C23: while a call of add_document_to_vector_store has set the instance to
\* indexing and has not returned, a reader of the instance's row observes
\* status indexing, never ready.
C23_ReadersSeeIndexing ==
    (observed.read /\ observed.indexing_in_flight)
    => observed.status = "indexing"

\* C24: when two calls on the same instance overlapped and both have
\* returned, the persisted status is the one written by the call that
\* finished last: ready if it succeeded, failed if it failed.
C24_LastWriterWins ==
    \A v \in VSIds :
        (/\ lastAdd[v].called
         /\ \A t \in Txns : txns[t].pc = "returned" /\ txns[t].vs = v
         /\ \E t \in Txns : txns[t].overlapped)
        => vstores[v].status =
              IF lastAdd[v].step = "none" THEN "ready" ELSE "failed"

\* C25: a failed add_document_to_vector_store leaves the instance's
\* documents set and its Embedding rows exactly as they were before the
\* call, whatever step failed.
C25_FailureKeepsLastGood ==
    [][\A t \in queue \ queue' :
          lastAdd'[t.vs].step # "none"
          => /\ vsDocs'[t.vs] = vsDocs[t.vs]
             /\ {e \in embeddings' : e.vs = t.vs}
                   = {e \in embeddings : e.vs = t.vs}]_vars

\* C25 witness: a call failed after the backend upsert on an instance that
\* holds an indexed document with its Embedding rows.
C25_Witness ==
    \E v \in VSIds :
        /\ lastAdd[v].called
        /\ lastAdd[v].step \in {"persist", "associate"}
        /\ vsDocs[v] # {}
        /\ \E e \in embeddings : e.vs = v

\* C26: within one worker process the handle of an embedding model is
\* initialized at most once, whatever sequence of embed_document tasks and
\* retrieval queries uses the model.
C26_ModelLoadedOnce ==
    \A m \in ModelIds : worker.loads[m] <= 1

\* C27: handling one posted user message stores exactly one user ChatMessage
\* with its content in the session, and at most one assistant reply after it.
C27_MessageStoredOnce ==
    \A r \in Reqs :
        (posts[r].via = "view"
            /\ posts[r].pc \in {"accepted", "added", "generated", "done"})
        => LET ms == messages[posts[r].session]
               mine == {k \in 1..Len(ms) :
                           /\ ms[k].message_type = "user"
                           /\ ms[k].content = <<posts[r].content>>}
           IN  /\ Cardinality(mine) = 1
               /\ \A k \in mine :
                     Cardinality({j \in (k + 1)..Len(ms) :
                                     ms[j].message_type = "assistant"}) <= 1

\* C28: the auto-index handler provisions at most one default vector store
\* per user, however many of the user's documents become completed.
C28_OneDefaultStore ==
    \A u \in Users : Cardinality(DefaultStores(u)) <= 1

\* C29: after add_document_to_vector_store has returned, successfully or
\* not, the record ids in the instance's backend collection are exactly the
\* embedding_id values of the instance's Embedding rows, and the record ids
\* the call built for the document's chunks are pairwise distinct.
C29_BackendAgreesWithRows ==
    \A v \in VSIds :
        lastAdd[v].called
        => /\ backend[v] = {e.embedding_id : e \in {x \in embeddings : x.vs = v}}
           /\ lastAdd[v].step \in {"backend", "persist", "associate", "none"}
                 => ~DuplicateIds(RecordIds(lastAdd[v].doc))

\* C30: after delete_document has removed a document, its chunks and
\* Embedding rows are gone and no backend collection holds a record whose
\* document_id is that document.
C30_DeletedEverywhere ==
    \A d \in Docs :
        pc[d] = "deleted"
        => /\ chunks[d] = <<>>
           /\ \A e \in embeddings : e.doc # d
           /\ \A v \in VSIds : \A id \in backend[v] : id[1] # d
====
